---- MODULE Spec2Model ----
(***************************************************************************)
(* kj_core: the columnar side-file record (CoreDataClass), the lifecycle   *)
(* hooks that keep its feather file in step with the relational row        *)
(* (DataManager) and the unit of work that fires them (DatabaseManager).   *)
(*                                                                         *)
(* One mapped record is modelled: its in-memory payload, dirty flag and    *)
(* last-edit timestamp, the feather file and parent directory at its       *)
(* data_filepath, and the state of its row in the session.  Every action   *)
(* records in `last` which operation ran, with what argument and outcome,  *)
(* and the state it ran from, so that the contracts of the operations can  *)
(* be stated as state invariants.                                          *)
(*                                                                         *)
(* What lies outside the repository is an input of the model:              *)
(*   - the file system: each read, write and unlink works or fails         *)
(*     (IOOutcomes), and a file at the path may not decode;                *)
(*   - the database: session.commit() works, fails in the flush before     *)
(*     the row's event fires, or fails at COMMIT after it (DBOutcomes);    *)
(*   - the mapped subclass: whether 'data' is among its inspected          *)
(*     attributes (data_in_attrs); it defines no validate_data hook;       *)
(*   - the clock: datetime.now() never goes back, while __init__ accepts   *)
(*     any datetime_last_edit.                                             *)
(***************************************************************************)
EXTENDS Integers, Sequences, FiniteSets, TLC

\* Number of distinct DataFrame contents.
MaxVal == 2
\* Largest reading of the wall clock (datetime.now()).
MaxClock == 2

---------------------------------------------------------------------------
\* Values

\* Python's None, for an absent payload / an absent return value.
None == << >>

\* The pandas DataFrames: <<v>> is the frame with contents v.
DataFrames == { <<v>> : v \in 1..MaxVal }

\* Optional[pd.DataFrame]
Payloads == {None} \cup DataFrames

\* Readings of datetime.now().
Times == 0..MaxClock

\* data_filepath: falsy (None or "") or a path.
NoPath == "unset"
SomePath == "path"

\* What is on disk at data_filepath: nothing, a feather file holding a frame,
\* or a file that does not decode.
NoFile == [exists |-> FALSE, valid |-> FALSE, df |-> None]
CorruptFile == [exists |-> TRUE, valid |-> FALSE, df |-> None]

\* DataFrame.to_feather: the file that holds df.
to_feather(df) == [exists |-> TRUE, valid |-> TRUE, df |-> df]

Files == {NoFile, CorruptFile} \cup { to_feather(df) : df \in DataFrames }

\* Outcomes of one file-system operation: it works, it fails leaving the
\* disk as it was, or (a write) it fails leaving a truncated file.
IOOutcomes == {"ok", "error", "partial"}

\* Outcomes of the database side of session.commit(): success, a failing
\* statement during the flush, or a failing COMMIT after the flush.
DBOutcomes == {"ok", "flush_error", "commit_error"}

---------------------------------------------------------------------------
\* State

VARIABLES
    obj,            \* the CoreDataClass instance
    disk,           \* the file and parent directory at data_filepath
    now,            \* the wall clock
    row,            \* the row of the instance in the session
    data_in_attrs,  \* whether 'data' is a mapped attribute of the class
    last,           \* the last operation, its outcome and the state before it
    mgr,            \* the DatabaseManager, its session and the database
    hier,           \* an object hierarchy (CoreBaseClass instances)
    call,           \* the last call of a manager, class or function
    cfg             \* the CoreConfig and the directories that exist

vars == <<obj, disk, now, row, data_in_attrs, last, mgr, hier, call, cfg>>

\* The parts of the state a specification does not use.
NoManager == << >>
NoHierarchy == << >>
NoCall == [op |-> "none"]
NoConfig == << >>

---------------------------------------------------------------------------
\* CoreDataClass

\* pd.DataFrame.equals: value equality of two frames (False against None).
DataFrameEquals(a, b) == a = b

\* The data setter for a DataFrame or None, called at time t.
DataSetterNoCompare(o, new_data, t) ==
    IF o.data = None /\ new_data = None
    THEN o
    ELSE [o EXCEPT !.data = new_data,
                   !.datetime_last_edit = t,
                   !.data_changed = TRUE]

DataSetterKeepsTime(o, new_data, t) ==
    IF o.data = None /\ new_data = None
    THEN o
    ELSE IF o.data = None \/ ~DataFrameEquals(o.data, new_data)
    THEN [o EXCEPT !.data = new_data, !.data_changed = TRUE]
    ELSE o

DataSetter(o, new_data, t) ==
    IF o.data = None /\ new_data = None
    THEN o
    ELSE IF o.data = None \/ ~DataFrameEquals(o.data, new_data)
    THEN [o EXCEPT !.data = new_data,
                   !.datetime_last_edit = t,
                   !.data_changed = TRUE]
    ELSE o

\* The data setter for a value that is neither a DataFrame nor None, called
\* at time t: ValueError before anything is assigned.
DataSetterInvalidStored(o, t) ==
    [obj |-> [o EXCEPT !.datetime_last_edit = t, !.data_changed = TRUE],
     raised |-> FALSE]

DataSetterInvalid(o, t) ==
    [obj |-> o, raised |-> TRUE]

\* __init__: supplied is << >> (no datetime_last_edit given) or <<time>>.
ConstructFlagFromSetter(data, data_filepath, data_changed, supplied, t) ==
    LET blank == [data |-> None, data_filepath |-> NoPath,
                  data_changed |-> FALSE, datetime_last_edit |-> t]
        set == DataSetter(blank, data, t)
    IN  [data |-> set.data,
         data_filepath |-> data_filepath,
         data_changed |-> set.data_changed,
         datetime_last_edit |-> set.datetime_last_edit]

Construct(data, data_filepath, data_changed, supplied, t) ==
    LET blank == [data |-> None, data_filepath |-> NoPath,
                  data_changed |-> FALSE, datetime_last_edit |-> t]
        set == DataSetter(blank, data, t)
    IN  [data |-> set.data,
         data_filepath |-> data_filepath,
         data_changed |-> data_changed,
         datetime_last_edit |-> IF supplied = << >> THEN t ELSE supplied[1]]

\* read_data_feather: the instance afterwards, the value returned, whether an
\* exception left the method and whether the load failed.
read_data_featherRaises(o, d, io) ==
    IF o.data_filepath = NoPath \/ ~d.file.exists \/ ~d.file.valid \/ io # "ok"
    THEN [obj |-> o, ret |-> None, raised |-> TRUE, failed |-> TRUE]
    ELSE [obj |-> [o EXCEPT !.data = d.file.df], ret |-> d.file.df,
          raised |-> FALSE, failed |-> FALSE]

read_data_featherViaSetter(o, d, io) ==
    IF o.data_filepath = NoPath \/ ~d.file.exists \/ ~d.file.valid \/ io # "ok"
    THEN [obj |-> o, ret |-> None, raised |-> FALSE, failed |-> TRUE]
    ELSE [obj |-> [o EXCEPT !.data = d.file.df, !.data_changed = TRUE],
          ret |-> d.file.df, raised |-> FALSE, failed |-> FALSE]

read_data_feather(o, d, io) ==
    IF o.data_filepath = NoPath
    THEN \* Path(None) raises TypeError, caught
         [obj |-> o, ret |-> None, raised |-> FALSE, failed |-> TRUE]
    ELSE IF ~d.file.exists
    THEN [obj |-> o, ret |-> None, raised |-> FALSE, failed |-> TRUE]
    ELSE IF ~d.file.valid \/ io # "ok"
    THEN \* pd.read_feather raises, caught
         [obj |-> o, ret |-> None, raised |-> FALSE, failed |-> TRUE]
    ELSE [obj |-> [o EXCEPT !.data = d.file.df], ret |-> d.file.df,
          raised |-> FALSE, failed |-> FALSE]

\* The data getter: hydrates from disk when the payload is absent and a
\* path is set, then returns the payload.
DataGetterNoHydration(o, d, io) ==
    [obj |-> o, ret |-> o.data, attempted |-> FALSE, failed |-> FALSE]

DataGetterAlwaysHydrates(o, d, io) ==
    IF o.data_filepath # NoPath
    THEN LET r == read_data_feather(o, d, io)
         IN  [obj |-> r.obj, ret |-> r.obj.data, attempted |-> TRUE,
              failed |-> r.failed]
    ELSE [obj |-> o, ret |-> o.data, attempted |-> FALSE, failed |-> FALSE]

DataGetter(o, d, io) ==
    IF o.data = None /\ o.data_filepath # NoPath
    THEN LET r == read_data_feather(o, d, io)
         IN  [obj |-> r.obj, ret |-> r.obj.data, attempted |-> TRUE,
              failed |-> r.failed]
    ELSE [obj |-> o, ret |-> o.data, attempted |-> FALSE, failed |-> FALSE]

\* write_data_feather: the instance and the disk afterwards, whether an
\* exception left the method and whether the write failed.
write_data_featherMkdirFirst(o, d, io) ==
    IF o.data_filepath = NoPath
    THEN [obj |-> o, disk |-> [d EXCEPT !.dir = TRUE],
          raised |-> FALSE, failed |-> TRUE]
    ELSE IF o.data = None \/ io = "error"
    THEN [obj |-> o, disk |-> [d EXCEPT !.dir = TRUE],
          raised |-> FALSE, failed |-> TRUE]
    ELSE IF io = "partial"
    THEN [obj |-> o, disk |-> [file |-> CorruptFile, dir |-> TRUE],
          raised |-> FALSE, failed |-> TRUE]
    ELSE [obj |-> o, disk |-> [file |-> to_feather(o.data), dir |-> TRUE],
          raised |-> FALSE, failed |-> FALSE]

write_data_feather(o, d, io) ==
    IF o.data_filepath = NoPath
    THEN \* ValueError raised and caught before anything is touched
         [obj |-> o, disk |-> d, raised |-> FALSE, failed |-> TRUE]
    ELSE IF o.data = None \/ io = "error"
    THEN \* the directory is made, then to_feather raises, caught
         [obj |-> o, disk |-> [d EXCEPT !.dir = TRUE],
          raised |-> FALSE, failed |-> TRUE]
    ELSE IF io = "partial"
    THEN [obj |-> o, disk |-> [file |-> CorruptFile, dir |-> TRUE],
          raised |-> FALSE, failed |-> TRUE]
    ELSE [obj |-> o, disk |-> [file |-> to_feather(o.data), dir |-> TRUE],
          raised |-> FALSE, failed |-> FALSE]

\* delete_data_feather: the disk afterwards, whether an exception left the
\* method and whether the delete failed.
delete_data_featherNoExistsCheck(o, d, io) ==
    IF o.data_filepath = NoPath
    THEN [disk |-> d, raised |-> FALSE, failed |-> TRUE]
    ELSE IF ~d.file.exists
    THEN [disk |-> d, raised |-> TRUE, failed |-> TRUE]
    ELSE IF io # "ok"
    THEN [disk |-> d, raised |-> FALSE, failed |-> TRUE]
    ELSE [disk |-> [d EXCEPT !.file = NoFile], raised |-> FALSE,
          failed |-> FALSE]

delete_data_feather(o, d, io) ==
    IF o.data_filepath = NoPath
    THEN [disk |-> d, raised |-> FALSE, failed |-> TRUE]
    ELSE IF ~d.file.exists
    THEN \* warning only
         [disk |-> d, raised |-> FALSE, failed |-> FALSE]
    ELSE IF io # "ok"
    THEN \* unlink raises, caught
         [disk |-> d, raised |-> FALSE, failed |-> TRUE]
    ELSE [disk |-> [d EXCEPT !.file = NoFile], raised |-> FALSE,
          failed |-> FALSE]

---------------------------------------------------------------------------
\* DataManager: the lifecycle hooks

\* What a hook did: the disk afterwards, which hook ran, whether it called
\* write_data_feather, whether the side-file operation failed, and whether
\* an exception left the hook.
NoHook(d) ==
    [disk |-> d, hook |-> "none", wrote |-> FALSE, failed |-> FALSE,
     raised |-> FALSE]

after_insert_listenerUnguarded(o, d, io) ==
    LET w == write_data_feather(o, d, io)
    IN  [disk |-> w.disk, hook |-> "insert", wrote |-> TRUE,
         failed |-> w.failed, raised |-> w.failed]

after_insert_listenerNoWrite(o, d, io) ==
    [disk |-> d, hook |-> "insert", wrote |-> FALSE, failed |-> FALSE,
     raised |-> FALSE]

after_insert_listener(o, d, io) ==
    LET w == write_data_feather(o, d, io)
    IN  \* try: target.write_data_feather() except Exception: log
        [disk |-> w.disk, hook |-> "insert", wrote |-> TRUE,
         failed |-> w.failed, raised |-> FALSE]

\* The update hook writes when 'data' is among the mapped attributes of the
\* instance (attrs); it does not read data_changed.
after_update_listener(o, d, io, attrs) ==
    IF attrs
    THEN LET w == write_data_feather(o, d, io)
         IN  [disk |-> w.disk, hook |-> "update", wrote |-> TRUE,
              failed |-> w.failed, raised |-> FALSE]
    ELSE [disk |-> d, hook |-> "update", wrote |-> FALSE, failed |-> FALSE,
          raised |-> FALSE]

after_delete_listenerNoDelete(o, d, io) ==
    [disk |-> d, hook |-> "delete", wrote |-> FALSE, failed |-> FALSE,
     raised |-> FALSE]

after_delete_listener(o, d, io) ==
    LET x == delete_data_feather(o, d, io)
    IN  [disk |-> x.disk, hook |-> "delete", wrote |-> FALSE,
         failed |-> x.failed, raised |-> FALSE]

---------------------------------------------------------------------------
\* DatabaseManager: the unit of work

\* The row of the instance in the session:
\*   transient   constructed, never added
\*   pending     session.add()ed, INSERT not yet emitted      (session.new)
\*   persistent  a committed row; dirty when a mapped attribute was changed
\*   deleted     session.delete()d, DELETE not yet emitted    (session.deleted)
\*   detached    the row was deleted and the delete committed
RowStates == {"transient", "pending", "persistent", "deleted", "detached"}

\* The flush inside session.commit(): one statement for the row, then its
\* after_insert / after_update / after_delete event.
Flush(o, d, r, attrs, io) ==
    IF r.state = "pending" THEN after_insert_listener(o, d, io)
    ELSE IF r.state = "persistent" /\ r.dirty
    THEN after_update_listener(o, d, io, attrs)
    ELSE IF r.state = "deleted" THEN after_delete_listener(o, d, io)
    ELSE NoHook(d)

\* session.rollback(): pending inserts are expunged, deletes and changes undone.
Rollback(r) ==
    [state |-> IF r.state = "pending" THEN "transient"
               ELSE IF r.state = "deleted" THEN "persistent"
               ELSE r.state,
     dirty |-> FALSE]

\* The row after a successful COMMIT.
Committed(r) ==
    [state |-> IF r.state = "pending" THEN "persistent"
               ELSE IF r.state = "deleted" THEN "detached"
               ELSE r.state,
     dirty |-> FALSE]

\* DatabaseManager.commit: session.commit(); on any exception rollback and
\* re-raise.  db is what the database does, io what the file system does.
commit(o, d, r, attrs, db, io) ==
    IF db = "flush_error"
    THEN [disk |-> d, row |-> Rollback(r), hook |-> NoHook(d),
          committed |-> FALSE, raised |-> TRUE]
    ELSE LET f == Flush(o, d, r, attrs, io)
         IN  IF f.raised \/ db = "commit_error"
             THEN [disk |-> f.disk, row |-> Rollback(r), hook |-> f,
                   committed |-> FALSE, raised |-> TRUE]
             ELSE [disk |-> f.disk, row |-> Committed(r), hook |-> f,
                   committed |-> TRUE, raised |-> FALSE]

---------------------------------------------------------------------------
\* Actions

\* What `last` records: the operation, its argument, what it returned,
\* whether it raised, whether its file operation failed, whether a read from
\* disk was attempted, which hook ran and whether it wrote, whether the unit
\* of work was committed and what the database did, and the state the operation ran from.
Outcome(op, arg, ret, raised, failed, attempted, hook, wrote, db, done) ==
    [op |-> op, arg |-> arg, ret |-> ret, raised |-> raised,
     failed |-> failed, attempted |-> attempted, hook |-> hook,
     wrote |-> wrote, db |-> db, committed |-> done,
     pre |-> obj, preDisk |-> disk, preRow |-> row]

\* The constructor's arguments and what is already at the path.
Init ==
    /\ now = 0
    /\ \E data \in Payloads, path \in {NoPath, SomePath},
          changed \in BOOLEAN,
          supplied \in {<< >>} \cup { <<t>> : t \in Times } :
          obj = Construct(data, path, changed, supplied, now)
    /\ \E f \in Files, dir \in BOOLEAN :
          /\ obj.data_filepath = NoPath => f = NoFile /\ ~dir
          /\ f.exists => dir
          /\ disk = [file |-> f, dir |-> dir]
    /\ row = [state |-> "transient", dirty |-> FALSE]
    /\ data_in_attrs \in BOOLEAN
    /\ last = [op |-> "init", arg |-> None, ret |-> None, raised |-> FALSE,
               failed |-> FALSE, attempted |-> FALSE, hook |-> "none",
               wrote |-> FALSE, db |-> "none", committed |-> FALSE,
               pre |-> obj, preDisk |-> disk, preRow |-> row]
    /\ mgr = NoManager
    /\ hier = NoHierarchy
    /\ call = NoCall
    /\ cfg = NoConfig

\* Time passes.
Tick ==
    /\ now < MaxClock
    /\ now' = now + 1
    /\ last' = Outcome("tick", None, None, FALSE, FALSE, FALSE, "none",
                       FALSE, "none", FALSE)
    /\ UNCHANGED <<obj, disk, row, data_in_attrs, mgr, hier, call, cfg>>

\* obj.data = new_data, for a DataFrame or None.
SetData ==
    \E new_data \in Payloads :
        /\ obj' = DataSetter(obj, new_data, now)
        /\ last' = Outcome("set_data", new_data, None, FALSE, FALSE, FALSE,
                           "none", FALSE, "none", FALSE)
        /\ UNCHANGED <<disk, now, row, data_in_attrs, mgr, hier, call, cfg>>

\* obj.data = something that is neither a DataFrame nor None: ValueError.
SetDataInvalid ==
    LET r == DataSetterInvalid(obj, now)
    IN  /\ obj' = r.obj
        /\ last' = Outcome("set_invalid", None, None, r.raised, FALSE, FALSE,
                           "none", FALSE, "none", FALSE)
        /\ UNCHANGED <<disk, now, row, data_in_attrs, mgr, hier, call, cfg>>

\* obj.data is read.
GetData ==
    \E io \in IOOutcomes \ {"partial"} :
        LET g == DataGetter(obj, disk, io)
        IN  /\ obj' = g.obj
            /\ last' = Outcome("get_data", None, g.ret, FALSE, g.failed,
                               g.attempted, "none", FALSE, "none", FALSE)
            /\ UNCHANGED <<disk, now, row, data_in_attrs, mgr, hier, call, cfg>>

ReadFeather ==
    \E io \in IOOutcomes \ {"partial"} :
        LET r == read_data_feather(obj, disk, io)
        IN  /\ obj' = r.obj
            /\ last' = Outcome("read", None, r.ret, r.raised, r.failed,
                               TRUE, "none", FALSE, "none", FALSE)
            /\ UNCHANGED <<disk, now, row, data_in_attrs, mgr, hier, call, cfg>>

WriteFeather ==
    \E io \in IOOutcomes :
        LET w == write_data_feather(obj, disk, io)
        IN  /\ obj' = w.obj
            /\ disk' = w.disk
            /\ last' = Outcome("write", None, None, w.raised, w.failed,
                               FALSE, "none", TRUE, "none", FALSE)
            /\ UNCHANGED <<now, row, data_in_attrs, mgr, hier, call, cfg>>

DeleteFeather ==
    \E io \in IOOutcomes \ {"partial"} :
        LET x == delete_data_feather(obj, disk, io)
        IN  /\ disk' = x.disk
            /\ last' = Outcome("delete", None, None, x.raised, x.failed,
                               FALSE, "none", FALSE, "none", FALSE)
            /\ UNCHANGED <<obj, now, row, data_in_attrs, mgr, hier, call, cfg>>

\* The ORM loads the row into a fresh instance: the reconstructor runs.
InitOnLoad ==
    /\ row.state = "persistent"
    /\ obj' = [obj EXCEPT !.data = None]
    /\ last' = Outcome("init_on_load", None, None, FALSE, FALSE, FALSE,
                       "none", FALSE, "none", FALSE)
    /\ UNCHANGED <<disk, now, row, data_in_attrs, mgr, hier, call, cfg>>

\* session.add(obj)
Add ==
    /\ row.state = "transient"
    /\ row' = [state |-> "pending", dirty |-> FALSE]
    /\ last' = Outcome("add", None, None, FALSE, FALSE, FALSE, "none",
                       FALSE, "none", FALSE)
    /\ UNCHANGED <<obj, disk, now, data_in_attrs, mgr, hier, call, cfg>>

\* A mapped (relational) attribute of the row is changed.
Modify ==
    /\ row.state = "persistent"
    /\ row' = [row EXCEPT !.dirty = TRUE]
    /\ last' = Outcome("modify", None, None, FALSE, FALSE, FALSE, "none",
                       FALSE, "none", FALSE)
    /\ UNCHANGED <<obj, disk, now, data_in_attrs, mgr, hier, call, cfg>>

\* session.delete(obj)
Delete ==
    /\ row.state = "persistent"
    /\ row' = [row EXCEPT !.state = "deleted"]
    /\ last' = Outcome("delete_row", None, None, FALSE, FALSE, FALSE,
                       "none", FALSE, "none", FALSE)
    /\ UNCHANGED <<obj, disk, now, data_in_attrs, mgr, hier, call, cfg>>

\* DatabaseManager.commit()
Commit ==
    \E db \in DBOutcomes, io \in IOOutcomes :
        LET c == commit(obj, disk, row, data_in_attrs, db, io)
        IN  /\ disk' = c.disk
            /\ row' = c.row
            /\ last' = Outcome("commit", None, None, c.raised, c.hook.failed,
                               FALSE, c.hook.hook, c.hook.wrote, db,
                               c.committed)
            /\ UNCHANGED <<obj, now, data_in_attrs, mgr, hier, call, cfg>>

Next ==
    \/ Tick
    \/ SetData
    \/ SetDataInvalid
    \/ GetData
    \/ ReadFeather
    \/ WriteFeather
    \/ DeleteFeather
    \/ InitOnLoad
    \/ Add
    \/ Modify
    \/ Delete
    \/ Commit

Spec == Init /\ [][Next]_vars

---------------------------------------------------------------------------
\* DatabaseManager: connection, session and queries

\* Largest primary key of a row of the mapped class.
MaxId == 2
\* Longest list of primary keys passed to load.
MaxListLen == 2

\* Primary keys of rows.
Ids == 1..MaxId

\* Primary keys asked for: those of rows, and 0, which no row has.
AskedIds == 0..MaxId

\* The ids argument of load: None, an int, a list of ints, or anything else.
IdsNone == [kind |-> "none", val |-> << >>]
IdsOther == [kind |-> "other", val |-> << >>]
IdsInt(n) == [kind |-> "int", val |-> <<n>>]
IdsList(l) == [kind |-> "list", val |-> l]

IdsValues ==
    {IdsNone, IdsOther}
        \cup { IdsInt(n) : n \in AskedIds }
        \cup { IdsList(l) : l \in UNION { [1..n -> AskedIds] : n \in 0..MaxListLen } }

\* The recorded history of the connect and disconnect calls: the last call
\* with its outcome, the last call that returned normally, and whether a
\* disconnect ever returned normally.
NoHistory == [lastCall |-> "none", lastDone |-> "none", disconnected |-> FALSE]

\* __init__: no engine, no session.  rows are the primary keys of the rows in
\* the database file.  Of the session: table holds the rows the open
\* transaction sees, new / dirty / deleted are session.new, session.dirty
\* and session.deleted.
DatabaseManagerInit(rows) ==
    [session |-> "none", engine |-> FALSE, committed |-> rows,
     table |-> rows, new |-> {}, dirty |-> {}, deleted |-> {},
     hist |-> NoHistory]

\* A flush: pending inserts and deletes reach the transaction.
SessionFlush(m) ==
    [m EXCEPT !.table = (m.table \cup m.new) \ m.deleted,
              !.new = {}, !.dirty = {}, !.deleted = {}]

\* session.commit(): flush, then COMMIT.
SessionCommit(m) ==
    [SessionFlush(m) EXCEPT !.committed = (m.table \cup m.new) \ m.deleted]

\* session.rollback() / session.close(): the transaction is abandoned.
SessionRollback(m) ==
    [m EXCEPT !.table = m.committed,
              !.new = {}, !.dirty = {}, !.deleted = {}]

\* connect: out is what create_all does on the new engine.
connect(m, out) ==
    IF out # "ok"
    THEN \* SQLAlchemyError logged and re-raised; _session is not assigned
         [mgr |-> [m EXCEPT !.engine = TRUE], raised |-> TRUE]
    ELSE [mgr |-> [SessionRollback(m) EXCEPT !.engine = TRUE,
                                             !.session = "open"],
          raised |-> FALSE]

\* ask_commit: answer is what the user types, out what the commit does.
ask_commit(m, answer, out) ==
    IF answer = "true"
    THEN IF out = "ok"
         THEN [mgr |-> SessionCommit(m), raised |-> FALSE]
         ELSE [mgr |-> SessionRollback(m), raised |-> TRUE]
    ELSE [mgr |-> m, raised |-> FALSE]

\* disconnect: prompts when session.dirty is not empty, closes the session,
\* disposes the engine.
disconnectKeepsSession(m, answer, out) ==
    [mgr |-> m, prompted |-> FALSE, raised |-> FALSE]

disconnect(m, answer, out) ==
    IF m.session = "open"
    THEN LET prompted == m.dirty # {}
             a == IF prompted THEN ask_commit(m, answer, out)
                  ELSE [mgr |-> m, raised |-> FALSE]
         IN  IF a.raised
             THEN [mgr |-> a.mgr, prompted |-> prompted, raised |-> TRUE]
             ELSE [mgr |-> [SessionRollback(a.mgr) EXCEPT !.session = "none"],
                   prompted |-> prompted, raised |-> FALSE]
    ELSE [mgr |-> m, prompted |-> FALSE, raised |-> FALSE]

\* The session property.
session(m) ==
    IF m.session # "open"
    THEN [ret |-> "none", raised |-> TRUE]
    ELSE [ret |-> m.session, raised |-> FALSE]

\* DatabaseManager.commit seen from the session as a whole: the manager
\* afterwards, whether it raised, and the severity of its last log record
\* before returning or re-raising the commit's error.
commit_session(m, out) ==
    IF m.session # "open"
    THEN \* None.commit() raises, then None.rollback() raises in the handler
         [mgr |-> m, raised |-> TRUE, rolledback |-> FALSE, log |-> "error"]
    ELSE IF out = "ok"
    THEN [mgr |-> SessionCommit(m), raised |-> FALSE, rolledback |-> FALSE,
          log |-> "info"]
    ELSE \* logger.error, rollback, logger.info, raise
         [mgr |-> SessionRollback(m), raised |-> TRUE, rolledback |-> TRUE,
          log |-> "error"]

\* load: the manager afterwards, the primary keys of the instances returned
\* (a query returns them in no particular order), whether it raised and with
\* what.  q is what the query does.
loadOneOrRaise(m, ids, q) ==
    IF ids.kind = "other"
    THEN [mgr |-> m, ret |-> {}, raised |-> TRUE, error |-> "ValueError"]
    ELSE IF m.session # "open"
    THEN [mgr |-> m, ret |-> {}, raised |-> TRUE, error |-> "NotConnected"]
    ELSE IF q # "ok"
    THEN [mgr |-> m, ret |-> {}, raised |-> TRUE, error |-> "QueryError"]
    ELSE LET f == SessionFlush(m)
             rows == IF ids.kind = "none" THEN f.table
                     ELSE { n \in f.table :
                              \E i \in DOMAIN ids.val : ids.val[i] = n }
         IN  IF ids.kind = "int" /\ rows = {}
             THEN [mgr |-> f, ret |-> {}, raised |-> TRUE,
                   error |-> "NoResultFound"]
             ELSE [mgr |-> f, ret |-> rows, raised |-> FALSE,
                   error |-> "none"]

loadQueriesFirst(m, ids, q) ==
    IF m.session # "open"
    THEN [mgr |-> m, ret |-> {}, raised |-> TRUE, error |-> "NotConnected"]
    ELSE IF q # "ok"
    THEN [mgr |-> m, ret |-> {}, raised |-> TRUE, error |-> "QueryError"]
    ELSE IF ids.kind = "other"
    THEN [mgr |-> SessionFlush(m), ret |-> {}, raised |-> TRUE,
          error |-> "ValueError"]
    ELSE LET f == SessionFlush(m)
             rows == IF ids.kind = "none" THEN f.table
                     ELSE { n \in f.table :
                              \E i \in DOMAIN ids.val : ids.val[i] = n }
         IN  [mgr |-> f, ret |-> rows, raised |-> FALSE, error |-> "none"]

load(m, ids, q) ==
    IF ids.kind = "other"
    THEN \* ValueError raised before the session is touched, logged, re-raised
         [mgr |-> m, ret |-> {}, raised |-> TRUE, error |-> "ValueError"]
    ELSE IF m.session # "open"
    THEN [mgr |-> m, ret |-> {}, raised |-> TRUE, error |-> "NotConnected"]
    ELSE IF q # "ok"
    THEN [mgr |-> m, ret |-> {}, raised |-> TRUE, error |-> "QueryError"]
    ELSE LET f == SessionFlush(m)  \* the query autoflushes
             rows == IF ids.kind = "none" THEN f.table
                     ELSE { n \in f.table :
                              \E i \in DOMAIN ids.val : ids.val[i] = n }
         IN  [mgr |-> f, ret |-> rows, raised |-> FALSE, error |-> "none"]

\* What `call` records of a DatabaseManager call.
Called(op, ids, ret, raised, prompted, log, out, error) ==
    [op |-> op, ids |-> ids, ret |-> ret, raised |-> raised,
     prompted |-> prompted, log |-> log, out |-> out, error |-> error,
     pre |-> mgr]

\* The record part of the state, unused.
RecordUnused ==
    /\ now = 0
    /\ obj = Construct(None, NoPath, FALSE, << >>, 0)
    /\ disk = [file |-> NoFile, dir |-> FALSE]
    /\ row = [state |-> "transient", dirty |-> FALSE]
    /\ data_in_attrs = FALSE
    /\ last = [op |-> "none"]

recVars == <<obj, disk, now, row, data_in_attrs, last>>

\* A DatabaseManager is constructed over a database file with some rows.
InitDB ==
    /\ RecordUnused
    /\ hier = NoHierarchy
    /\ \E rows \in SUBSET Ids : mgr = DatabaseManagerInit(rows)
    /\ call = NoCall
    /\ cfg = NoConfig

Connect ==
    \E out \in {"ok", "error"} :
        LET c == connect(mgr, out)
            done == IF c.raised THEN mgr.hist.lastDone ELSE "connect"
        IN  /\ mgr' = [c.mgr EXCEPT
                          !.hist.lastCall = IF c.raised THEN "connect_failed"
                                            ELSE "connect_ok",
                          !.hist.lastDone = done]
            /\ call' = Called("connect", IdsNone, {}, c.raised, FALSE,
                              "none", out, "none")
            /\ UNCHANGED <<recVars, hier, cfg>>

Disconnect ==
    \E answer \in {"true", "false"}, out \in {"ok", "error"} :
        LET d == disconnect(mgr, answer, out)
        IN  /\ mgr' = [d.mgr EXCEPT
                          !.hist.lastCall = IF d.raised
                                            THEN "disconnect_failed"
                                            ELSE "disconnect_ok",
                          !.hist.lastDone = IF d.raised
                                            THEN mgr.hist.lastDone
                                            ELSE "disconnect",
                          !.hist.disconnected =
                              mgr.hist.disconnected \/ ~d.raised]
            /\ call' = Called("disconnect", IdsNone, {}, d.raised,
                              d.prompted, "none", out, "none")
            /\ UNCHANGED <<recVars, hier, cfg>>

\* manager.session is read.
SessionAccessor ==
    LET r == session(mgr)
    IN  /\ call' = Called("session", IdsNone, {r.ret}, r.raised, FALSE,
                          "none", "none", "none")
        /\ UNCHANGED <<recVars, hier, mgr, cfg>>

\* manager.session.add(instance) for a new primary key.
AddRow ==
    \E id \in Ids :
        /\ mgr.session = "open"
        /\ id \notin mgr.table \cup mgr.new
        /\ mgr' = [mgr EXCEPT !.new = @ \cup {id}]
        /\ call' = Called("add", IdsInt(id), {}, FALSE, FALSE, "none",
                          "none", "none")
        /\ UNCHANGED <<recVars, hier, cfg>>

\* A mapped attribute of a loaded instance is changed.
ModifyRow ==
    \E id \in Ids :
        /\ mgr.session = "open"
        /\ id \in mgr.table \ mgr.deleted
        /\ mgr' = [mgr EXCEPT !.dirty = @ \cup {id}]
        /\ call' = Called("modify", IdsInt(id), {}, FALSE, FALSE, "none",
                          "none", "none")
        /\ UNCHANGED <<recVars, hier, cfg>>

\* manager.session.delete(instance) for a loaded instance.
DeleteRow ==
    \E id \in Ids :
        /\ mgr.session = "open"
        /\ id \in mgr.table \ mgr.deleted
        /\ mgr' = [mgr EXCEPT !.deleted = @ \cup {id}, !.dirty = @ \ {id}]
        /\ call' = Called("delete", IdsInt(id), {}, FALSE, FALSE, "none",
                          "none", "none")
        /\ UNCHANGED <<recVars, hier, cfg>>

\* manager.commit()
CommitSession ==
    \E out \in DBOutcomes :
        LET c == commit_session(mgr, out)
        IN  /\ mgr' = c.mgr
            /\ call' = Called("commit", IdsNone, {}, c.raised, FALSE, c.log,
                              out, "none")
            /\ UNCHANGED <<recVars, hier, cfg>>

NextDB ==
    \/ Connect
    \/ Disconnect
    \/ SessionAccessor
    \/ AddRow
    \/ ModifyRow
    \/ DeleteRow
    \/ CommitSession

SpecDB == InitDB /\ [][NextDB]_vars

\* load is called on a manager, connected or not, whose session holds any
\* pending inserts, updates and deletes.
InitLoad ==
    /\ RecordUnused
    /\ hier = NoHierarchy
    /\ \E rows \in SUBSET Ids, open \in BOOLEAN :
          \E new \in SUBSET (Ids \ rows), dirty \in SUBSET rows,
             deleted \in SUBSET rows :
              /\ ~open => new = {} /\ dirty = {} /\ deleted = {}
              /\ dirty \cap deleted = {}
              /\ mgr = [DatabaseManagerInit(rows) EXCEPT
                           !.session = IF open THEN "open" ELSE "none",
                           !.engine = open,
                           !.new = new, !.dirty = dirty, !.deleted = deleted]
    /\ call = NoCall
    /\ cfg = NoConfig

Load ==
    /\ call.op = "none"
    /\ \E ids \in IdsValues, q \in {"ok", "error"} :
        LET r == load(mgr, ids, q)
        IN  /\ mgr' = r.mgr
            /\ call' = Called("load", ids, r.ret, r.raised, FALSE, "none", q,
                              r.error)
            /\ UNCHANGED <<recVars, hier, cfg>>

NextLoad == Load

SpecLoad == InitLoad /\ [][NextLoad]_vars

---------------------------------------------------------------------------
\* CoreDataClass: construction with its keyword arguments

\* An optional keyword argument: << >> when it is left out, <<v>> when given.
Omitted == << >>

\* The default of the data_changed parameter.
DefaultDataChanged == FALSE

\* CoreDataClass(data=..., data_filepath=..., data_changed=...,
\* datetime_last_edit=...) at time t.
CoreDataClass(data, data_filepath, changed, supplied, t) ==
    Construct(data, data_filepath,
              IF changed = Omitted THEN DefaultDataChanged ELSE changed[1],
              supplied, t)

\* No instance yet.
InitNew ==
    /\ RecordUnused
    /\ mgr = NoManager
    /\ hier = NoHierarchy
    /\ call = NoCall
    /\ cfg = NoConfig

\* Time passes.
Clock ==
    /\ now < MaxClock
    /\ now' = now + 1
    /\ UNCHANGED <<obj, disk, row, data_in_attrs, last, mgr, hier, call, cfg>>

\* An instance is constructed.
New ==
    \E data \in Payloads, path \in {NoPath, SomePath},
       changed \in {Omitted, <<TRUE>>, <<FALSE>>},
       supplied \in {Omitted} \cup { <<t>> : t \in Times } :
        /\ obj' = CoreDataClass(data, path, changed, supplied, now)
        /\ call' = [op |-> "new", data |-> data, data_filepath |-> path,
                    data_changed |-> changed, datetime_last_edit |-> supplied,
                    t |-> now]
        /\ UNCHANGED <<disk, now, row, data_in_attrs, last, mgr, hier, cfg>>

NextNew ==
    \/ Clock
    \/ New

SpecNew == InitNew /\ [][NextNew]_vars

---------------------------------------------------------------------------
\* CoreBaseClass: the Project -> Series -> Measurement hierarchy

\* Most children of one instance.
MaxKids == 2

ClassNames == {"Project", "Series", "Measurement", "MeasurementVersion"}

\* The name of the attribute holding the children, "" for None.
NoAttr == ""

get_child_attr_name(cls) ==
    CASE cls = "Project" -> "series"
      [] cls = "Series" -> "measurement"
      [] cls = "Measurement" -> "measurement_version"
      [] OTHER -> NoAttr

\* An instance is [cls, kids, iterable, set]: its class name, and the value
\* of its children attribute, which is the list kids or, with iterable FALSE,
\* a value that cannot be iterated; with set FALSE the attribute is unset.  An instance is identified by its path from
\* the root: << >> the root, <<i>> its i-th child, <<i, j>> that child's j-th.
Grandchildren ==
    { [cls |-> c, kids |-> << >>, iterable |-> TRUE, set |-> TRUE] :
        c \in {"Measurement", "MeasurementVersion"} }

Children ==
    { [cls |-> "Series", kids |-> k, iterable |-> TRUE, set |-> TRUE] :
        k \in UNION { [1..n -> Grandchildren] : n \in 0..MaxKids } }
    \cup { [cls |-> "Series", kids |-> << >>, iterable |-> FALSE,
           set |-> TRUE] }

Roots ==
    { [cls |-> "Project", kids |-> k, iterable |-> TRUE, set |-> TRUE] :
        k \in UNION { [1..n -> Children] : n \in 0..MaxKids } }
    \cup { [cls |-> "Project", kids |-> << >>, iterable |-> FALSE,
           set |-> TRUE] }

\* get_children_instances: None for a class without children attribute.
get_children_instances(node) ==
    IF get_child_attr_name(node.cls) = NoAttr \/ ~node.set
    THEN [none |-> TRUE, list |-> << >>, iterable |-> TRUE]
    ELSE [none |-> FALSE, list |-> node.kids, iterable |-> node.iterable]

\* find_all_of_class: the paths of the instances returned, and whether the
\* call raised.  FindInChildren is its loop over the children from the i-th.
RECURSIVE find_all_of_classNoTry(_, _, _)
RECURSIVE FindInChildrenNoTry(_, _, _, _)

find_all_of_classNoTry(node, path, class_name) ==
    IF node.cls = class_name
    THEN [ret |-> <<path>>, raised |-> FALSE]
    ELSE LET c == get_children_instances(node)
         IN  IF c.none THEN [ret |-> << >>, raised |-> FALSE]
             ELSE IF ~c.iterable THEN [ret |-> << >>, raised |-> TRUE]
             ELSE FindInChildrenNoTry(c.list, path, 1, class_name)

FindInChildrenNoTry(list, path, i, class_name) ==
    IF i > Len(list) THEN [ret |-> << >>, raised |-> FALSE]
    ELSE LET r == find_all_of_classNoTry(list[i], Append(path, i), class_name)
             rest == FindInChildrenNoTry(list, path, i + 1, class_name)
         IN  IF r.raised \/ rest.raised
             THEN [ret |-> << >>, raised |-> TRUE]
             ELSE [ret |-> r.ret \o rest.ret, raised |-> FALSE]

RECURSIVE find_all_of_class(_, _, _)
RECURSIVE FindInChildren(_, _, _, _)

find_all_of_class(node, path, class_name) ==
    IF node.cls = class_name
    THEN [ret |-> <<path>>, raised |-> FALSE]
    ELSE LET c == get_children_instances(node)
         IN  IF c.none THEN [ret |-> << >>, raised |-> FALSE]
             ELSE IF ~c.iterable
             THEN \* the for statement raises TypeError
                  [ret |-> << >>, raised |-> TRUE]
             ELSE [ret |-> FindInChildren(c.list, path, 1, class_name),
                   raised |-> FALSE]

FindInChildren(list, path, i, class_name) ==
    IF i > Len(list) THEN << >>
    ELSE LET r == find_all_of_class(list[i], Append(path, i), class_name)
             found == IF r.raised THEN << >> ELSE r.ret
         IN  found \o FindInChildren(list, path, i + 1, class_name)

\* A hierarchy is built.
InitTree ==
    /\ RecordUnused
    /\ mgr = NoManager
    /\ \E root \in Roots : hier = [root |-> root]
    /\ call = NoCall
    /\ cfg = NoConfig

\* root.find_all_of_class(class_name)
FindAllOfClass ==
    \E class_name \in ClassNames :
        LET r == find_all_of_class(hier.root, << >>, class_name)
        IN  /\ call' = [op |-> "find_all_of_class", class_name |-> class_name,
                        ret |-> r.ret, raised |-> r.raised]
            /\ UNCHANGED <<recVars, mgr, hier, cfg>>

NextTree == FindAllOfClass

SpecTree == InitTree /\ [][NextTree]_vars

---------------------------------------------------------------------------
\* CoreBaseClass.method_for_all_in_list

\* Longest list of instances.
MaxLen == 4

\* What an instance does with the method: it has no callable attribute of
\* that name, the call raises, or the call returns a value.
Missing == [kind |-> "missing", val |-> 0]
Raises == [kind |-> "raises", val |-> 0]
Returns(v) == [kind |-> "returns", val |-> v]

Instances == {Missing, Raises} \cup { Returns(v) : v \in 1..MaxVal }

InstanceLists == UNION { [1..n -> Instances] : n \in 0..MaxLen }

\* method_for_all_in_list: the list returned, the positions of the instances
\* whose method was invoked, in order of invocation, and whether it raised.
\* ForAllInList is its loop from the i-th instance on.
RECURSIVE ForAllInListSkipsMissing(_, _, _, _)
ForAllInListSkipsMissing(instances, i, results, invoked) ==
    IF i > Len(instances)
    THEN [ret |-> results, invoked |-> invoked, raised |-> FALSE]
    ELSE IF instances[i].kind = "missing"
    THEN ForAllInListSkipsMissing(instances, i + 1, results, invoked)
    ELSE IF instances[i].kind = "raises"
    THEN ForAllInListSkipsMissing(instances, i + 1, results,
                                  Append(invoked, i))
    ELSE ForAllInListSkipsMissing(instances, i + 1,
                                  Append(results, instances[i].val),
                                  Append(invoked, i))

RECURSIVE ForAllInList(_, _, _, _)
ForAllInList(instances, i, results, invoked) ==
    IF i > Len(instances)
    THEN [ret |-> results, invoked |-> invoked, raised |-> FALSE]
    ELSE IF instances[i].kind = "missing"
    THEN \* not callable: logged, return []
         [ret |-> << >>, invoked |-> invoked, raised |-> FALSE]
    ELSE IF instances[i].kind = "raises"
    THEN \* caught and logged, nothing appended
         ForAllInList(instances, i + 1, results, Append(invoked, i))
    ELSE ForAllInList(instances, i + 1, Append(results, instances[i].val),
                      Append(invoked, i))

method_for_all_in_list(instances) ==
    IF instances = << >>
    THEN \* instances[0] in the opening log line raises IndexError
         [ret |-> << >>, invoked |-> << >>, raised |-> TRUE]
    ELSE ForAllInList(instances, 1, << >>, << >>)

\* No call yet.
InitList ==
    /\ RecordUnused
    /\ mgr = NoManager
    /\ hier = NoHierarchy
    /\ call = NoCall
    /\ cfg = NoConfig

\* CoreBaseClass.method_for_all_in_list(instances, method_name)
MethodForAllInList ==
    /\ call = NoCall
    /\ \E instances \in InstanceLists :
        LET r == method_for_all_in_list(instances)
        IN  /\ call' = [op |-> "method_for_all_in_list",
                        instances |-> instances, ret |-> r.ret,
                        invoked |-> r.invoked, raised |-> r.raised]
            /\ UNCHANGED <<recVars, mgr, hier, cfg>>

NextList == MethodForAllInList

SpecList == InitList /\ [][NextList]_vars

---------------------------------------------------------------------------
\* CoreBaseClass.method_for_all_children

\* The objects the method is called on: of any class, the children attribute
\* unset or holding a list of instances.
Parents ==
    { [cls |-> c, kids |-> k, iterable |-> TRUE, set |-> TRUE] :
        c \in ClassNames, k \in InstanceLists }
    \cup { [cls |-> c, kids |-> << >>, iterable |-> TRUE, set |-> FALSE] :
             c \in ClassNames }

\* The loop of method_for_all_children from the i-th child on.
RECURSIVE ForAllChildren(_, _, _, _)
ForAllChildren(children_instances, i, results, invoked) ==
    IF i > Len(children_instances)
    THEN [ret |-> results, invoked |-> invoked, raised |-> FALSE]
    ELSE IF children_instances[i].kind = "missing"
    THEN [ret |-> << >>, invoked |-> invoked, raised |-> FALSE]
    ELSE IF children_instances[i].kind = "raises"
    THEN ForAllChildren(children_instances, i + 1, results,
                        Append(invoked, i))
    ELSE ForAllChildren(children_instances, i + 1,
                        Append(results, children_instances[i].val),
                        Append(invoked, i))

method_for_all_childrenNoGuard(node) ==
    method_for_all_in_list(get_children_instances(node).list)

method_for_all_children(node) ==
    LET c == get_children_instances(node)
    IN  IF c.none \/ c.list = << >>
        THEN \* "No child instances found."
             [ret |-> << >>, invoked |-> << >>, raised |-> FALSE]
        ELSE ForAllChildren(c.list, 1, << >>, << >>)

\* An object with its children.
InitChildren ==
    /\ RecordUnused
    /\ mgr = NoManager
    /\ \E node \in Parents : hier = [root |-> node]
    /\ call = NoCall
    /\ cfg = NoConfig

\* root.method_for_all_children(method_name)
MethodForAllChildren ==
    LET r == method_for_all_children(hier.root)
    IN  /\ call' = [op |-> "method_for_all_children", ret |-> r.ret,
                    invoked |-> r.invoked, raised |-> r.raised]
        /\ UNCHANGED <<recVars, mgr, hier, cfg>>

NextChildren == MethodForAllChildren

SpecChildren == InitChildren /\ [][NextChildren]_vars

---------------------------------------------------------------------------
\* CoreBaseClass.method_for_all_of_class

\* What the method of an instance does: as for the flat list, or it returns
\* a list.  The value 0 stands for the string that __str__ returns.
ReturnsList(l) == [kind |-> "list", val |-> l]

MethodResults == Instances \cup {ReturnsList(<< >>), ReturnsList(<<1, MaxVal>>)}

StrResult == Returns(0)

\* A Series with up to MaxKids + 1 Measurements, each instance with the
\* behaviour m of its method.
Measurements ==
    { [cls |-> "Measurement", kids |-> << >>, iterable |-> TRUE,
       set |-> TRUE, m |-> b] : b \in MethodResults }

SeriesRoots ==
    { [cls |-> "Series", kids |-> k, iterable |-> TRUE, set |-> TRUE,
       m |-> b] :
        k \in UNION { [1..n -> Measurements] : n \in 0..(MaxKids + 1) },
        b \in MethodResults }

\* The instance at a path below root.
InstanceAt(root, path) ==
    IF path = << >> THEN root ELSE root.kids[path[1]]

\* getattr(instance, method_name, None) and what calling it does: every
\* object has __str__.
MethodOf(instance, method_name) ==
    IF method_name = "__str__" THEN StrResult ELSE instance.m

\* The loop over instances_of_class from the i-th on: the results and the
\* paths of the instances invoked.
RECURSIVE ForAllOfClassDropsLists(_, _, _, _, _, _)
ForAllOfClassDropsLists(root, found, method_name, i, results, invoked) ==
    IF i > Len(found) THEN [ret |-> results, invoked |-> invoked]
    ELSE LET b == MethodOf(InstanceAt(root, found[i]), method_name)
         IN  IF b.kind = "missing"
             THEN ForAllOfClassDropsLists(root, found, method_name, i + 1,
                                          results, invoked)
             ELSE IF b.kind \in {"raises", "list"}
             THEN ForAllOfClassDropsLists(root, found, method_name, i + 1,
                                          results, Append(invoked, found[i]))
             ELSE ForAllOfClassDropsLists(root, found, method_name, i + 1,
                                          Append(results, b.val),
                                          Append(invoked, found[i]))

RECURSIVE ForAllOfClassAborts(_, _, _, _, _, _)
ForAllOfClassAborts(root, found, method_name, i, results, invoked) ==
    IF i > Len(found) THEN [ret |-> results, invoked |-> invoked]
    ELSE LET b == MethodOf(InstanceAt(root, found[i]), method_name)
         IN  IF b.kind = "missing"
             THEN [ret |-> << >>, invoked |-> invoked]
             ELSE IF b.kind = "raises"
             THEN ForAllOfClassAborts(root, found, method_name, i + 1,
                                      results, Append(invoked, found[i]))
             ELSE IF b.kind = "list"
             THEN ForAllOfClassAborts(root, found, method_name, i + 1,
                                      results \o b.val,
                                      Append(invoked, found[i]))
             ELSE ForAllOfClassAborts(root, found, method_name, i + 1,
                                      Append(results, b.val),
                                      Append(invoked, found[i]))

RECURSIVE ForAllOfClass(_, _, _, _, _, _)
ForAllOfClass(root, found, method_name, i, results, invoked) ==
    IF i > Len(found) THEN [ret |-> results, invoked |-> invoked]
    ELSE LET b == MethodOf(InstanceAt(root, found[i]), method_name)
         IN  IF b.kind = "missing"
             THEN \* not callable: logged, the loop goes on
                  ForAllOfClass(root, found, method_name, i + 1, results,
                                invoked)
             ELSE IF b.kind = "raises"
             THEN ForAllOfClass(root, found, method_name, i + 1, results,
                                Append(invoked, found[i]))
             ELSE IF b.kind = "list"
             THEN ForAllOfClass(root, found, method_name, i + 1,
                                results \o b.val, Append(invoked, found[i]))
             ELSE ForAllOfClass(root, found, method_name, i + 1,
                                Append(results, b.val),
                                Append(invoked, found[i]))

\* class_name and method_name are Omitted or <<name>>.
method_for_all_of_class(root, class_name, method_name) ==
    LET cn == IF class_name = Omitted THEN root.cls ELSE class_name[1]
        mn == IF method_name = Omitted THEN "__str__" ELSE method_name[1]
        f == find_all_of_class(root, << >>, cn)
    IN  IF f.raised
        THEN [ret |-> << >>, invoked |-> << >>, raised |-> TRUE,
              class_name |-> cn, method_name |-> mn]
        ELSE LET r == ForAllOfClass(root, f.ret, mn, 1, << >>, << >>)
             IN  [ret |-> r.ret, invoked |-> r.invoked, raised |-> FALSE,
                  class_name |-> cn, method_name |-> mn]

\* A Series with its Measurements.
InitOfClass ==
    /\ RecordUnused
    /\ mgr = NoManager
    /\ \E root \in SeriesRoots : hier = [root |-> root]
    /\ call = NoCall
    /\ cfg = NoConfig

\* root.method_for_all_of_class(class_name, method_name)
MethodForAllOfClass ==
    /\ call = NoCall
    /\ \E class_name \in {Omitted, <<"Series">>, <<"Measurement">>, <<"Project">>},
       method_name \in {Omitted, <<"m">>} :
        LET r == method_for_all_of_class(hier.root, class_name, method_name)
        IN  /\ call' = [op |-> "method_for_all_of_class",
                        class_name |-> class_name,
                        method_name |-> method_name,
                        used_class |-> r.class_name,
                        used_method |-> r.method_name,
                        ret |-> r.ret, invoked |-> r.invoked,
                        raised |-> r.raised]
            /\ UNCHANGED <<recVars, mgr, hier, cfg>>

NextOfClass == MethodForAllOfClass

SpecOfClass == InitOfClass /\ [][NextOfClass]_vars

---------------------------------------------------------------------------
\* SimilarityMetrics.check_thresholds

\* Metric values and thresholds, integers standing for the floats.
MetricValues == 0..MaxVal

\* The fields of the metrics object that the ranges name, and a key of the
\* ranges that is no field of it.
MetricFields == {"rmse", "mae"}
RangeKeys == <<"rmse", "nofield">>

\* A threshold: None or a value.
Thresholds == {None} \cup { <<v>> : v \in MetricValues }

\* The metrics objects, and the ranges dictionaries: a (lower, upper) pair
\* for some of the keys rmse and nofield.
MetricsObjects == [MetricFields -> MetricValues]

RangesDicts ==
    UNION { [keys -> Thresholds \X Thresholds] :
              keys \in SUBSET {"rmse", "nofield"} }

\* getattr(self, metric, 0)
GetMetric(self, metric) ==
    IF metric \in DOMAIN self THEN self[metric] ELSE 0

\* The condition of the if statement.
OutsideInclusive(value, lower, upper) ==
    \/ lower # None /\ value <= lower[1]
    \/ upper # None /\ value >= upper[1]

Outside(value, lower, upper) ==
    \/ lower # None /\ value < lower[1]
    \/ upper # None /\ value > upper[1]

\* The loop over metrics_warning.items(), from the i-th key on; a warning
\* is the content of its formatted message.
RECURSIVE CheckEntries(_, _, _)
CheckEntries(self, ranges, i) ==
    IF i > Len(RangeKeys) THEN << >>
    ELSE IF RangeKeys[i] \notin DOMAIN ranges
    THEN CheckEntries(self, ranges, i + 1)
    ELSE LET metric == RangeKeys[i]
             lower == ranges[metric][1]
             upper == ranges[metric][2]
             value == GetMetric(self, metric)
             warning == [metric |-> metric, value |-> value,
                         lower |-> lower, upper |-> upper]
         IN  IF Outside(value, lower, upper)
             THEN <<warning>> \o CheckEntries(self, ranges, i + 1)
             ELSE CheckEntries(self, ranges, i + 1)

check_thresholds(self, ranges) ==
    [self |-> self, ret |-> CheckEntries(self, ranges, 1)]

InitThresholds ==
    /\ RecordUnused
    /\ mgr = NoManager
    /\ hier = NoHierarchy
    /\ call = NoCall
    /\ cfg = NoConfig

\* metrics.check_thresholds(ranges)
CheckThresholds ==
    /\ call = NoCall
    /\ \E self \in MetricsObjects, ranges \in RangesDicts :
        LET r == check_thresholds(self, ranges)
        IN  /\ call' = [op |-> "check_thresholds", self |-> self,
                        ranges |-> ranges, after |-> r.self, ret |-> r.ret]
            /\ UNCHANGED <<recVars, mgr, hier, cfg>>

NextThresholds == CheckThresholds

SpecThresholds == InitThresholds /\ [][NextThresholds]_vars

---------------------------------------------------------------------------
\* CoreConfig: the working directory and the paths below it

\* Number of directories a working directory is chosen from.
MaxDir == 3

\* The directories 1..MaxDir, and 0 for Path(), the current directory.
Dirs == 1..MaxDir
CurrentDir == 0

\* directory / name
Below(directory, name) == <<directory, name>>

\* set_working_directory: the config and the existing directories afterwards.
\* out is what mkdir does when the directory does not exist.
set_working_directory(c, dirs, directory, out) ==
    IF directory \notin dirs /\ out # "ok"
    THEN \* mkdir raises: logged, nothing assigned
         [config |-> c, dirs |-> dirs, failed |-> TRUE]
    ELSE [config |-> [c EXCEPT !.working_directory = directory],
          dirs |-> dirs \cup {directory}, failed |-> FALSE]

\* CoreConfig(working_directory)
CoreConfigNew(dirs, directory, out) ==
    LET blank == [working_directory |-> CurrentDir,
                  log_directory |-> None, plot_directory |-> None,
                  data_directory |-> None, database_directory |-> None]
        s == set_working_directory(blank, dirs, directory, out)
        w == s.config.working_directory
    IN  [config |-> [working_directory |-> w,
                     log_directory |-> Below(w, "logs"),
                     plot_directory |-> Below(w, "plots"),
                     data_directory |-> Below(w, "data"),
                     database_directory |-> Below(w, "databases")],
         dirs |-> s.dirs, failed |-> s.failed]

\* A configuration is constructed, some directories existing.
InitConfig ==
    /\ RecordUnused
    /\ mgr = NoManager
    /\ hier = NoHierarchy
    /\ \E dirs \in SUBSET Dirs, directory \in Dirs, out \in {"ok", "error"} :
          LET n == CoreConfigNew(dirs, directory, out)
          IN  /\ cfg = [config |-> n.config, dirs |-> n.dirs]
              /\ call = [op |-> "new_config", directory |-> directory,
                         failed |-> n.failed, pre |-> n.config]

\* config.set_working_directory(directory)
SetWorkingDirectory ==
    \E directory \in Dirs, out \in {"ok", "error"} :
        LET s == set_working_directory(cfg.config, cfg.dirs, directory, out)
        IN  /\ cfg' = [config |-> s.config, dirs |-> s.dirs]
            /\ call' = [op |-> "set_working_directory",
                        directory |-> directory, failed |-> s.failed,
                        pre |-> cfg.config]
            /\ UNCHANGED <<recVars, mgr, hier>>

NextConfig == SetWorkingDirectory

SpecConfig == InitConfig /\ [][NextConfig]_vars

---------------------------------------------------------------------------
\* Properties

PathSet == last.pre.data_filepath # NoPath

\* C1: assigning through the data setter a value equal to the payload the
\* record holds (equal frames, or both absent) leaves data_changed and
\* datetime_last_edit as they were.
C1_EqualAssignmentIsNoOp ==
    (last.op = "set_data" /\ last.arg = last.pre.data)
        => /\ obj.data_changed = last.pre.data_changed
           /\ obj.datetime_last_edit = last.pre.datetime_last_edit

\* An equal frame is assigned to a clean record at a later time than its
\* last edit, so that a change of either field would show.
C1_Witness ==
    /\ last.op = "set_data"
    /\ last.arg = last.pre.data
    /\ last.arg # None
    /\ ~last.pre.data_changed
    /\ last.pre.datetime_last_edit < now

\* C2 as stated: assigning a value that differs from the payload held sets
\* data_changed and sets datetime_last_edit to a value greater than or equal
\* to its previous value.
C2_TimestampNeverGoesBack ==
    (last.op = "set_data" /\ last.arg # last.pre.data)
        => /\ obj.data_changed
           /\ obj.datetime_last_edit >= last.pre.datetime_last_edit

\* C2 amended: assigning a value that differs from the payload held sets
\* data_changed and sets datetime_last_edit to the current time, which is
\* greater than or equal to the previous value whenever the previous value
\* is not later than the current time.
C2_DifferentAssignmentMarksDirty ==
    (last.op = "set_data" /\ last.arg # last.pre.data)
        => /\ obj.data_changed
           /\ obj.datetime_last_edit = now
           /\ last.pre.datetime_last_edit <= now
                  => obj.datetime_last_edit >= last.pre.datetime_last_edit

\* A present payload of a clean record is replaced by None at a later time
\* than its last edit.
C2_Witness ==
    /\ last.op = "set_data"
    /\ last.pre.data # None
    /\ last.arg = None
    /\ ~last.pre.data_changed
    /\ last.pre.datetime_last_edit < now

\* C3: write_data_feather on a record with a configured path and a present
\* payload, when the file is written, leaves data_changed False.
C3_WriteClearsDirtyFlag ==
    (last.op = "write" /\ PathSet /\ last.pre.data # None /\ ~last.failed)
        => ~obj.data_changed

\* C4: the after_update hook does not call write_data_feather and does not
\* rewrite the side file for a record whose data_changed is False; it writes
\* only when the record is dirty.
C4_UpdateHookIsDirtyGated ==
    (last.op = "commit" /\ last.hook = "update" /\ ~last.pre.data_changed)
        => /\ ~last.wrote
           /\ disk = last.preDisk

\* C5 as stated: after a record with a configured path and a present payload
\* P is inserted and the commit succeeds, the side file exists and holds P.
C5_InsertAlwaysLeavesSideFile ==
    (/\ last.op = "commit" /\ last.committed
     /\ last.preRow.state = "pending"
     /\ PathSet /\ last.pre.data # None)
        => /\ disk.file.exists
           /\ disk.file.valid
           /\ disk.file.df = last.pre.data

\* C5 amended: the same, provided the write of the side file in the
\* after_insert hook did not fail.
C5_InsertLeavesSideFile ==
    (/\ last.op = "commit" /\ last.committed
     /\ last.preRow.state = "pending"
     /\ PathSet /\ last.pre.data # None
     /\ ~last.failed)
        => /\ last.hook = "insert"
           /\ disk.file.exists
           /\ disk.file.valid
           /\ disk.file.df = last.pre.data

\* A pending record whose payload is not what the file at its path held is
\* committed, and the write works.
C5_Witness ==
    /\ last.op = "commit" /\ last.committed
    /\ last.preRow.state = "pending"
    /\ PathSet /\ last.pre.data # None
    /\ ~last.failed
    /\ ~last.preDisk.file.exists

\* C6 as stated: after a record with a configured path is deleted and the
\* commit succeeds, no side file exists at its path.
C6_DeleteAlwaysRemovesSideFile ==
    (/\ last.op = "commit" /\ last.committed
     /\ last.preRow.state = "deleted"
     /\ PathSet)
        => ~disk.file.exists

\* C6 amended: the same, provided the removal of the side file in the
\* after_delete hook did not fail.
C6_DeleteRemovesSideFile ==
    (/\ last.op = "commit" /\ last.committed
     /\ last.preRow.state = "deleted"
     /\ PathSet
     /\ ~last.failed)
        => /\ last.hook = "delete"
           /\ ~disk.file.exists

\* The delete of a record whose side file exists is committed and the
\* removal works.
C6_Witness ==
    /\ last.op = "commit" /\ last.committed
    /\ last.preRow.state = "deleted"
    /\ PathSet
    /\ ~last.failed
    /\ last.preDisk.file.exists

\* C7: a failed side-file write or delete inside a lifecycle hook does not
\* leave the hook: commit() does not raise because of it and, the database
\* permitting, the row change is committed.
C7_HookFailureDoesNotAbortCommit ==
    (/\ last.op = "commit"
     /\ last.hook # "none"
     /\ last.failed
     /\ last.db = "ok")
        => /\ ~last.raised
           /\ last.committed
           /\ row = Committed(last.preRow)

\* The side-file operation of a hook failed and the row change is committed.
C7_Witness ==
    /\ last.op = "commit"
    /\ last.hook = "delete"
    /\ last.failed
    /\ last.committed
    /\ row.state = "detached"
    /\ disk.file.exists

\* C8 as stated: reading data with no payload in memory and a path set
\* attempts read_data_feather first and, if the side file exists, returns the
\* content of the file; with a payload in memory it returns that payload
\* without touching the disk.
C8_GetterReturnsExistingFile ==
    last.op = "get_data"
        => /\ (last.pre.data = None /\ PathSet)
                  => /\ last.attempted
                     /\ last.preDisk.file.exists
                            => /\ last.ret \in DataFrames
                               /\ last.ret = last.preDisk.file.df
           /\ last.pre.data # None
                  => /\ last.ret = last.pre.data
                     /\ ~last.attempted
                     /\ obj = last.pre

\* C8 amended: the same, where the getter returns the content of the file if
\* the side file exists and is read without error.
C8_LazyHydration ==
    last.op = "get_data"
        => /\ (last.pre.data = None /\ PathSet)
                  => /\ last.attempted
                     /\ (last.preDisk.file.exists /\ ~last.failed)
                            => /\ last.ret \in DataFrames
                               /\ last.ret = last.preDisk.file.df
           /\ last.pre.data # None
                  => /\ last.ret = last.pre.data
                     /\ ~last.attempted
                     /\ obj = last.pre

\* The payload is absent after a load from the database, the side file
\* exists, and the getter returns its content.
C8_Witness ==
    /\ last.op = "get_data"
    /\ last.pre.data = None
    /\ PathSet
    /\ last.preRow.state = "persistent"
    /\ last.preDisk.file.valid
    /\ last.ret # None

\* C9: read_data_feather never raises; with no path, a missing file or a
\* decode error it returns None and leaves the record as it was; on success
\* it sets the payload to the content of the file and returns it.
C9_ReadNeverRaises ==
    last.op = "read"
        => /\ ~last.raised
           /\ (\/ ~PathSet
               \/ ~last.preDisk.file.exists
               \/ ~last.preDisk.file.valid
               \/ last.failed)
                  => /\ last.ret = None
                     /\ obj = last.pre
           /\ ~last.failed
                  => /\ last.ret \in DataFrames
                     /\ last.ret = last.preDisk.file.df
                     /\ obj = [last.pre EXCEPT !.data = last.ret]

\* A decode error on a dirty record that holds a payload.
C9_Witness ==
    /\ last.op = "read"
    /\ PathSet
    /\ last.preDisk.file = CorruptFile
    /\ last.pre.data # None
    /\ last.ret = None

\* C10: write_data_feather on a record with no path does not raise, creates
\* no file and no directory, and leaves payload and dirty flag as they were.
C10_WriteWithoutPathIsSwallowed ==
    (last.op = "write" /\ ~PathSet)
        => /\ ~last.raised
           /\ last.failed
           /\ disk = last.preDisk
           /\ ~disk.dir
           /\ obj = last.pre

\* A dirty record with a payload and no path is written.
C10_Witness ==
    /\ last.op = "write"
    /\ ~PathSet
    /\ last.pre.data # None
    /\ last.pre.data_changed

\* C11 as stated: delete_data_feather with a configured path removes the
\* side file if present and only warns if it is absent; either way no side
\* file exists afterwards, the payload is unchanged, and a second call
\* changes nothing.
C11_DeleteAlwaysLeavesNoFile ==
    (last.op = "delete" /\ PathSet)
        => /\ ~last.raised
           /\ obj = last.pre
           /\ ~disk.file.exists
           /\ \A io \in IOOutcomes : delete_data_feather(obj, disk, io).disk = disk

\* C11 amended: the same, where no side file exists afterwards and a second
\* call changes nothing provided the removal did not fail; an absent file
\* is never a failure.
C11_DeleteRemovesFile ==
    (last.op = "delete" /\ PathSet)
        => /\ ~last.raised
           /\ obj = last.pre
           /\ ~last.preDisk.file.exists
                  => /\ ~last.failed
                     /\ disk = last.preDisk
           /\ ~last.failed
                  => /\ ~disk.file.exists
                     /\ \A io \in IOOutcomes :
                            /\ delete_data_feather(obj, disk, io).disk = disk
                            /\ ~delete_data_feather(obj, disk, io).raised
                            /\ ~delete_data_feather(obj, disk, io).failed

\* The side file of a record that holds a payload is removed.
C11_Witness ==
    /\ last.op = "delete"
    /\ PathSet
    /\ last.preDisk.file.exists
    /\ ~last.failed
    /\ obj.data # None

\* C12: assigning a value that is neither a DataFrame nor None raises and
\* leaves payload, data_changed and datetime_last_edit as they were.
C12_InvalidAssignmentRaises ==
    last.op = "set_invalid"
        => /\ last.raised
           /\ obj = last.pre

\* An invalid value is assigned to a clean record that holds a payload, at
\* a later time than its last edit.
C12_Witness ==
    /\ last.op = "set_invalid"
    /\ last.pre.data # None
    /\ ~last.pre.data_changed
    /\ last.pre.datetime_last_edit < now

\* C13 as stated: after any sequence of connect and disconnect calls the
\* session accessor returns a session if and only if the last of these calls
\* was a successful connect.
C13_SessionIffLastCallConnected ==
    ~session(mgr).raised <=> mgr.hist.lastCall = "connect_ok"

\* C13 amended: the session accessor returns a session if and only if the
\* last connect or disconnect call that returned normally was a connect; it
\* raises when the manager was never connected or was last disconnected, and
\* a successful connect after a disconnect yields a session again.
C13_SessionIffLastCompletedConnect ==
    /\ ~session(mgr).raised <=> mgr.hist.lastDone = "connect"
    /\ mgr.hist.lastDone \in {"none", "disconnect"} => session(mgr).raised
    /\ mgr.hist.lastCall = "connect_ok" => session(mgr).ret = "open"
    /\ call.op = "session" =>
          (call.raised <=> call.pre.hist.lastDone # "connect")

\* A session read successfully after a re-connect that followed a disconnect.
C13_Witness ==
    /\ call.op = "session"
    /\ ~call.raised
    /\ mgr.hist.disconnected
    /\ mgr.hist.lastCall = "connect_ok"

\* C14: disconnect on an open session prompts for a commit exactly if the
\* session holds a pending insert, update or delete, and closes the session
\* after the prompt.
C14_DisconnectPromptsOnAnyPendingChange ==
    (call.op = "disconnect" /\ call.pre.session = "open")
        => /\ call.prompted <=>
                 (call.pre.new \cup call.pre.dirty \cup call.pre.deleted) # {}
           /\ ~call.raised => mgr.session = "none"

\* C15: a failing commit on a connected manager is rolled back (nothing of
\* the unit of work is persisted), logged at critical severity and re-raised.
C15_CommitFailureIsLoggedCritical ==
    (call.op = "commit" /\ call.pre.session = "open" /\ call.out # "ok")
        => /\ call.raised
           /\ mgr.committed = call.pre.committed
           /\ mgr.table = call.pre.committed
           /\ mgr.new \cup mgr.dirty \cup mgr.deleted = {}
           /\ call.log = "critical"

\* The rows a query of the open session sees: those of the transaction, the
\* pending inserts included and the pending deletes excluded.
VisibleRows(m) == (m.table \cup m.new) \ m.deleted

\* C16: load on a connected manager whose query succeeds returns a list and
\* does not raise: all rows for ids = None, the row with that primary key or
\* nothing for an int, the rows whose primary key is in the list for a list.
C16_LoadReturnsMatchingRows ==
    (/\ call.op = "load"
     /\ call.pre.session = "open"
     /\ call.out = "ok"
     /\ call.ids.kind # "other")
        => /\ ~call.raised
           /\ call.ids.kind = "none" => call.ret = VisibleRows(call.pre)
           /\ call.ids.kind = "int"
                 => /\ call.ret = VisibleRows(call.pre) \cap {call.ids.val[1]}
                    /\ Cardinality(call.ret) <= 1
           /\ call.ids.kind = "list"
                 => call.ret = { n \in VisibleRows(call.pre) :
                                   \E i \in 1..Len(call.ids.val) :
                                       call.ids.val[i] = n }

\* An int id without a row, asked of a session that holds a pending insert
\* and a pending delete, gives the empty list.
C16_Witness ==
    /\ call.op = "load"
    /\ call.pre.session = "open"
    /\ call.out = "ok"
    /\ call.ids.kind = "int"
    /\ call.ids.val[1] \in call.pre.deleted
    /\ call.pre.new # {}
    /\ call.ret = {}
    /\ ~call.raised

\* C17: load with ids that is neither None, an int nor a list raises a
\* ValueError, returns nothing and leaves the session's pending changes as
\* they were.
C17_LoadRejectsOtherIds ==
    (call.op = "load" /\ call.ids.kind = "other")
        => /\ call.raised
           /\ call.error = "ValueError"
           /\ call.ret = {}
           /\ mgr = call.pre

\* Such a load on an open session with a pending insert and a pending delete.
C17_Witness ==
    /\ call.op = "load"
    /\ call.ids.kind = "other"
    /\ call.raised
    /\ call.pre.session = "open"
    /\ call.pre.new # {}
    /\ call.pre.deleted # {}

\* The instance at a path of the hierarchy.
NodeAt(path) ==
    IF path = << >> THEN hier.root
    ELSE IF Len(path) = 1 THEN hier.root.kids[path[1]]
    ELSE hier.root.kids[path[1]].kids[path[2]]

\* The paths of the instances below the root that a search descending from
\* the root meets: every child, and the grandchildren under children that
\* are not of the class looked for and whose children can be iterated.
MatchingPaths(class_name) ==
    { <<i>> : i \in { n \in DOMAIN hier.root.kids :
                        hier.root.kids[n].cls = class_name } }
    \cup { p \in { <<i, j>> : i \in DOMAIN hier.root.kids, j \in 1..MaxKids } :
                  /\ hier.root.kids[p[1]].cls # class_name
                  /\ hier.root.kids[p[1]].iterable
                  /\ p[2] \in DOMAIN hier.root.kids[p[1]].kids
                  /\ NodeAt(p).cls = class_name }

\* Child order: the path p comes before the path q.
PathBefore(p, q) ==
    \/ p[1] < q[1]
    \/ p[1] = q[1] /\ Len(p) = 2 /\ Len(q) = 2 /\ p[2] < q[2]

\* C18: find_all_of_class returns [self] when the root is of the class;
\* otherwise, if the root's children can be iterated, it does not raise and
\* returns in child order, each once, the matching children and the matching
\* grandchildren of the children whose traversal succeeds; for Measurement on
\* Project -> Series -> Measurement these are exactly the Measurement
\* grandchildren outside the subtrees whose traversal raises.
C18_FindAllOfClass ==
    call.op = "find_all_of_class" =>
        /\ hier.root.cls = call.class_name
              => ~call.raised /\ call.ret = << << >> >>
        /\ (hier.root.cls # call.class_name /\ hier.root.iterable)
              => /\ ~call.raised
                 /\ { call.ret[k] : k \in DOMAIN call.ret }
                        = MatchingPaths(call.class_name)
                 /\ \A a, b \in DOMAIN call.ret :
                        a < b => PathBefore(call.ret[a], call.ret[b])
        /\ (call.class_name = "Measurement" /\ ~call.raised)
              => \A i \in DOMAIN hier.root.kids :
                    \A j \in DOMAIN hier.root.kids[i].kids :
                        (\E k \in DOMAIN call.ret : call.ret[k] = <<i, j>>)
                            <=> hier.root.kids[i].kids[j].cls = "Measurement"

\* A search for Measurement that skips a first child whose traversal raises
\* and returns the one Measurement among the grandchildren of the second
\* child, which also has a grandchild of another class.
C18_Witness ==
    /\ call.op = "find_all_of_class"
    /\ call.class_name = "Measurement"
    /\ ~call.raised
    /\ Len(hier.root.kids) = 2
    /\ ~hier.root.kids[1].iterable
    /\ Len(call.ret) = 1
    /\ \E j \in DOMAIN hier.root.kids[2].kids :
          hier.root.kids[2].kids[j].cls # "Measurement"

\* The results of the instances whose call returns, in list order.
RECURSIVE SuccessfulResults(_)
SuccessfulResults(instances) ==
    IF instances = << >> THEN << >>
    ELSE IF Head(instances).kind = "returns"
    THEN <<Head(instances).val>> \o SuccessfulResults(Tail(instances))
    ELSE SuccessfulResults(Tail(instances))

\* C19: when every instance of the list has a callable method, each is
\* invoked once in list order, the result is the results of the calls that
\* did not raise, in order, and no exception reaches the caller.
C19_EveryCallableIsInvoked ==
    (/\ call.op = "method_for_all_in_list"
     /\ \A i \in DOMAIN call.instances : call.instances[i].kind # "missing")
        => /\ ~call.raised
           /\ call.invoked = [i \in DOMAIN call.instances |-> i]
           /\ call.ret = SuccessfulResults(call.instances)

\* C20: when an instance of the list lacks a callable method the call
\* returns the empty list wherever that instance stands, and invokes the
\* instances before the first such instance and none after it.
C20_MissingMethodEmptiesBatch ==
    (/\ call.op = "method_for_all_in_list"
     /\ \E i \in DOMAIN call.instances : call.instances[i].kind = "missing")
        => /\ ~call.raised
           /\ call.ret = << >>
           /\ \E k \in DOMAIN call.instances :
                 /\ call.instances[k].kind = "missing"
                 /\ \A i \in 1..(k - 1) : call.instances[i].kind # "missing"
                 /\ call.invoked = [i \in 1..(k - 1) |-> i]

\* The instance without the method stands between one whose call returned
\* and one whose call would have returned.
C20_Witness ==
    /\ call.op = "method_for_all_in_list"
    /\ Len(call.instances) >= 3
    /\ call.instances[1].kind = "returns"
    /\ call.instances[2].kind = "missing"
    /\ call.instances[3].kind = "returns"
    /\ call.ret = << >>
    /\ call.invoked = <<1>>

\* C25: a commit that fails and is rolled back leaves the side file on disk
\* as it was before the unit of work: the hooks write and remove side files
\* only for a commit that succeeds.
C25_FailedCommitLeavesSideFiles ==
    (last.op = "commit" /\ last.raised)
        => /\ ~last.committed
           /\ disk.file = last.preDisk.file

\* C26 as stated: after any DataFrame or None v is assigned through the
\* setter, the next read of the getter returns v, whatever the path and the
\* side file.
C26_ReadYourWrites ==
    last.op = "set_data"
        => \A io \in IOOutcomes \ {"partial"} :
              DataGetter(obj, disk, io).ret = last.arg

\* C26 amended: after a DataFrame v is assigned the next read returns v; after
\* None is assigned the next read returns None when no path is configured,
\* and otherwise hydrates: it returns the content of the side file if the
\* load succeeds and None if it fails.
C26_ReadYourDataFrameWrites ==
    last.op = "set_data"
        => \A io \in IOOutcomes \ {"partial"} :
              LET g == DataGetter(obj, disk, io)
              IN  /\ last.arg # None => g.ret = last.arg /\ ~g.attempted
                  /\ (last.arg = None /\ obj.data_filepath = NoPath)
                        => g.ret = None
                  /\ (last.arg = None /\ obj.data_filepath # NoPath)
                        => /\ g.attempted
                           /\ g.failed => g.ret = None
                           /\ ~g.failed => g.ret = disk.file.df

\* A DataFrame assigned over another payload while the side file holds a
\* third value.
C26_Witness ==
    /\ last.op = "set_data"
    /\ last.arg # None
    /\ last.pre.data # None
    /\ last.pre.data # last.arg
    /\ obj.data_filepath # NoPath
    /\ disk.file.valid
    /\ disk.file.df # last.arg

\* C27: reading the getter or calling read_data_feather, whether the load
\* succeeds or fails, changes neither data_changed nor datetime_last_edit.
C27_HydrationIsNotAnEdit ==
    last.op \in {"get_data", "read"}
        => /\ obj.data_changed = last.pre.data_changed
           /\ obj.datetime_last_edit = last.pre.datetime_last_edit
           /\ obj.data_filepath = last.pre.data_filepath

\* A clean record without payload whose getter loaded the side file, later
\* than its last edit.
C27_Witness ==
    /\ last.op = "get_data"
    /\ last.attempted
    /\ ~last.failed
    /\ last.pre.data = None
    /\ obj.data # None
    /\ ~obj.data_changed
    /\ obj.datetime_last_edit < now

\* C30: method_for_all_in_list with an empty list returns the empty list,
\* does not raise and invokes nothing.
C30_EmptyListGivesEmptyResult ==
    (call.op = "method_for_all_in_list" /\ call.instances = << >>)
        => /\ ~call.raised
           /\ call.ret = << >>
           /\ call.invoked = << >>

\* C28: after construction data_changed equals the data_changed argument,
\* FALSE when it is left out, whatever the initial payload, and
\* datetime_last_edit equals the datetime_last_edit argument when one is
\* given; the payload and the path are those passed.
C28_ConstructionFixesFlagFromArgument ==
    call.op = "new"
        => /\ call.data_changed = Omitted => ~obj.data_changed
           /\ call.data_changed # Omitted
                 => obj.data_changed = call.data_changed[1]
           /\ call.datetime_last_edit # Omitted
                 => obj.datetime_last_edit = call.datetime_last_edit[1]
           /\ obj.data = call.data
           /\ obj.data_filepath = call.data_filepath

\* A construction with a payload, the flag left out and an earlier
\* datetime_last_edit supplied.
C28_Witness ==
    /\ call.op = "new"
    /\ call.data # None
    /\ call.data_changed = Omitted
    /\ ~obj.data_changed
    /\ call.datetime_last_edit # Omitted
    /\ obj.datetime_last_edit < call.t

\* C23: check_thresholds returns exactly one warning for every entry of
\* the ranges whose metric value is strictly below a given lower bound or
\* strictly above a given upper bound, none for the other entries, and
\* leaves the metrics object as it was.
C23_OneWarningPerViolatedRange ==
    call.op = "check_thresholds"
        => /\ \A metric \in DOMAIN call.ranges :
                 LET lower == call.ranges[metric][1]
                     upper == call.ranges[metric][2]
                     value == GetMetric(call.self, metric)
                     below == lower # None /\ value < lower[1]
                     above == upper # None /\ value > upper[1]
                     hits == { k \in DOMAIN call.ret :
                                 call.ret[k].metric = metric }
                 IN  /\ Cardinality(hits) = IF below \/ above THEN 1 ELSE 0
                     /\ (lower = None /\ upper = None) => hits = {}
                     /\ (<<value>> = lower \/ <<value>> = upper)
                            /\ ~below /\ ~above => hits = {}
           /\ \A k \in DOMAIN call.ret : call.ret[k].metric \in DOMAIN call.ranges
           /\ call.after = call.self

\* rmse above its upper bound with no lower bound gives the one warning,
\* while a second entry whose value equals its bound gives none.
C23_Witness ==
    /\ call.op = "check_thresholds"
    /\ DOMAIN call.ranges = {"rmse", "nofield"}
    /\ call.ranges["rmse"][1] = None
    /\ call.ranges["rmse"][2] # None
    /\ call.self["rmse"] > call.ranges["rmse"][2][1]
    /\ call.ranges["nofield"][1] = <<0>>
    /\ Len(call.ret) = 1
    /\ call.ret[1].metric = "rmse"

\* C24: after construction and after any sequence of set_working_directory
\* calls, log_directory, plot_directory, data_directory and
\* database_directory are working_directory / logs, plots, data and
\* databases.
C24_PathsFollowWorkingDirectory ==
    /\ cfg.config.log_directory = Below(cfg.config.working_directory, "logs")
    /\ cfg.config.plot_directory = Below(cfg.config.working_directory, "plots")
    /\ cfg.config.data_directory = Below(cfg.config.working_directory, "data")
    /\ cfg.config.database_directory
          = Below(cfg.config.working_directory, "databases")

\* C21: for an object with a non-empty child collection
\* method_for_all_children returns what method_for_all_in_list returns for
\* get_children_instances(), invoking the same children; for an object
\* without mapping, with the attribute unset or with an empty collection it
\* returns the empty list and does not raise.
C21_ChildrenLikeList ==
    call.op = "method_for_all_children"
        => LET c == get_children_instances(hier.root)
               l == method_for_all_in_list(c.list)
           IN  /\ ~call.raised
               /\ (~c.none /\ c.list # << >>)
                     => /\ call.ret = l.ret
                        /\ call.invoked = l.invoked
                        /\ call.raised = l.raised
               /\ (c.none \/ c.list = << >>)
                     => call.ret = << >> /\ call.invoked = << >>
               /\ (get_child_attr_name(hier.root.cls) = NoAttr
                     \/ ~hier.root.set \/ hier.root.kids = << >>)
                     => call.ret = << >>

\* Three children, of which the second raises and the others return.
C21_Witness ==
    /\ call.op = "method_for_all_children"
    /\ hier.root.cls = "Series"
    /\ Len(hier.root.kids) = 3
    /\ hier.root.kids[1].kind = "returns"
    /\ hier.root.kids[2].kind = "raises"
    /\ hier.root.kids[3].kind = "returns"
    /\ Len(call.ret) = 2
    /\ call.invoked = <<1, 2, 3>>

\* What the call of the method on one instance adds to the results: the
\* elements of a list result, a non-list result itself, nothing when the call
\* raises or the instance has no such method.
Contribution(b) ==
    CASE b.kind = "list" -> b.val
      [] b.kind = "returns" -> <<b.val>>
      [] OTHER -> << >>

\* The contributions of the instances at the paths, in order.
RECURSIVE Contributions(_, _)
Contributions(paths, method_name) ==
    IF paths = << >> THEN << >>
    ELSE Contribution(MethodOf(InstanceAt(hier.root, Head(paths)), method_name))
             \o Contributions(Tail(paths), method_name)

\* The instances found for the class of the last call.
FoundOfClass == find_all_of_class(hier.root, << >>, call.used_class).ret

\* C22: method_for_all_of_class returns, for the instances that
\* find_all_of_class gives in order, the elements of every list result and
\* every non-list result as it is, nothing for a call that raises; the class
\* defaults to the caller's own and the method to __str__.
C22_OfClassFlattensResults ==
    call.op = "method_for_all_of_class"
        => /\ ~call.raised
           /\ call.class_name = Omitted => call.used_class = hier.root.cls
           /\ call.class_name # Omitted => call.used_class = call.class_name[1]
           /\ call.method_name = Omitted => call.used_method = "__str__"
           /\ call.method_name # Omitted => call.used_method = call.method_name[1]
           /\ call.ret = Contributions(FoundOfClass, call.used_method)
           /\ call.used_method = "__str__"
                 => call.ret = [i \in 1..Len(FoundOfClass) |-> StrResult.val]

\* Three Measurements: a list result, a call that raises and a single
\* result.
C22_Witness ==
    /\ call.op = "method_for_all_of_class"
    /\ call.class_name = <<"Measurement">>
    /\ call.method_name = <<"m">>
    /\ Len(hier.root.kids) = 3
    /\ hier.root.kids[1].m = ReturnsList(<<1, MaxVal>>)
    /\ hier.root.kids[2].m = Raises
    /\ hier.root.kids[3].m = Returns(1)
    /\ call.ret = <<1, MaxVal, 1>>

\* C29: an instance without the method does not end method_for_all_of_class:
\* it is not invoked, every other found instance is, before and after it,
\* and their results are returned, whereas method_for_all_in_list on the same
\* instances returns the empty list.
C29_MissingMethodIsSkipped ==
    (/\ call.op = "method_for_all_of_class"
     /\ call.used_method # "__str__"
     /\ \E k \in DOMAIN FoundOfClass :
           InstanceAt(hier.root, FoundOfClass[k]).m = Missing)
        => /\ ~call.raised
           /\ call.invoked
                 = SelectSeq(FoundOfClass,
                             LAMBDA q : InstanceAt(hier.root, q).m # Missing)
           /\ call.ret = Contributions(call.invoked, call.used_method)
           /\ method_for_all_in_list(
                  [k \in DOMAIN FoundOfClass |->
                      InstanceAt(hier.root, FoundOfClass[k]).m]).ret = << >>

\* The Measurement without the method stands between two whose calls return.
C29_Witness ==
    /\ call.op = "method_for_all_of_class"
    /\ call.class_name = <<"Measurement">>
    /\ call.method_name = <<"m">>
    /\ Len(hier.root.kids) = 3
    /\ hier.root.kids[1].m = Returns(1)
    /\ hier.root.kids[2].m = Missing
    /\ hier.root.kids[3].m = Returns(MaxVal)
    /\ call.ret = <<1, MaxVal>>
    /\ call.invoked = << <<1>>, <<3>> >>

====
